---- MODULE Spec2Model ----
(***************************************************************************)
(* Cell charging dashboard (src/mian.py): the synthetic telemetry          *)
(* generator, the Streamlit session that stores the last snapshot, and the *)
(* render pass that derives metrics, the filtered view and the alerts.     *)
(*                                                                         *)
(* Units: Voltage_V is kept in hundredths of a volt, Current_A and Power_W *)
(* in tenths, so that the two-decimal and one-decimal rounding of the      *)
(* source is exact integer arithmetic here.                                *)
(***************************************************************************)
EXTENDS Integers, Sequences, FiniteSets, TLC

VARIABLES
    cell_data,      \* st.session_state.cell_data: <<>> or a sequence of readings
    last_update,    \* st.session_state.last_update
    auto_refresh,   \* value of the "Auto Refresh (5s)" checkbox
    widget,         \* the process multiselect: the options it was built with, its value
    page,           \* what the current script run has rendered
    pc,             \* position of the script run
    trigger,        \* what started the current script run
    gen_calls,      \* calls of generate_cell_data in the current script run
    clock           \* the wall clock read by datetime.now()

vars == <<cell_data, last_update, auto_refresh, widget, page, pc, trigger,
          gen_calls, clock>>

----------------------------------------------------------------------------
(* Bounds of the exploration *)

\* raw draws of the random source are base + stride * position, with base
\* and stride in 0..MaxDraw
MaxDraw == 3

\* the clock takes the values 0..MaxClock
MaxClock == 1

\* longest fixture snapshot handed to the evaluator
MaxFixture == 2

----------------------------------------------------------------------------
(* The random source *)

Seeds == (0..MaxDraw) \X (0..MaxDraw)

FewSeeds == {0} \X (0..MaxDraw)

\* the raw value behind the f-th draw made for cell i
Raw(seed, i, f) == seed[1] + seed[2] * (7 * (i - 1) + f)

randint(a, b, r) == a + (r % (b - a + 1))

choice(seq, r) == seq[(r % Len(seq)) + 1]

\* round(random.uniform(a, b), d), a and b given in units of 10^-d
uniform(a, b, r) == a + (r % (b - a + 1))

\* the operands, among those the generator can draw, whose decimal product
\* is an exact tie and whose binary floating-point product rounds upwards
TiesRoundedUp ==
    { <<370, 5>>, <<370, 15>>, <<370, 35>>, <<374, 25>>, <<375, 2>>,
      <<375, 10>>, <<375, 18>>, <<375, 26>>, <<375, 34>>, <<385, 10>>,
      <<385, 30>>, <<386, 25>>, <<390, 25>>, <<390, 35>>, <<395, 10>>,
      <<395, 30>>, <<415, 10>>, <<415, 30>> }

\* round(x * y, 1) for x in hundredths and y in tenths; the result in tenths
RoundProduct(x, y) ==
    LET n == x * y
        q == n \div 100
        m == n % 100
    IN  IF m > 50 THEN q + 1
        ELSE IF m < 50 THEN q
        ELSE IF <<x, y>> \in TiesRoundedUp THEN q + 1 ELSE q

----------------------------------------------------------------------------
(* generate_cell_data *)

health_states == <<"Excellent", "Good", "Warning", "Critical">>

\* range(a, b)
range(a, b) == [j \in 1..(b - a) |-> a + j - 1]

\* the loop started at 0
cell_indices_from_zero == range(0, 8)

\* for i in range(1, 9)
cell_indices == range(1, 9)

Digits == <<"0", "1", "2", "3", "4", "5", "6", "7", "8", "9">>

\* f'Cell_{i:02d}'
CellId(i) ==
    IF i < 10 THEN "Cell_0" \o Digits[i + 1]
    ELSE "Cell_" \o Digits[(i \div 10) + 1] \o Digits[(i % 10) + 1]

\* the profile split one cell early
ActiveProfile_first_three(i) == i < 4

ActiveProfile(i) == i <= 4

Voltage(i, r) ==
    IF ActiveProfile(i) THEN uniform(390, 420, r) ELSE uniform(370, 421, r)

Current(i, r) ==
    IF ActiveProfile(i) THEN uniform(5, 35, r) ELSE uniform(0, 10, r)

Capacity(i, r) ==
    IF ActiveProfile(i) THEN randint(60, 99, r) ELSE randint(85, 100, r)

statuses == <<"Charging", "Complete", "Idle", "Error">>

\* the status drawn from the full list of statuses
Status_any(i, r) == choice(statuses, r)

Status(i, r) ==
    IF ActiveProfile(i) THEN choice(<<"Charging", "Charging", "Complete">>, r)
    ELSE choice(<<"Complete", "Idle">>, r)

Process(i, r) ==
    IF ActiveProfile(i) THEN choice(<<"CC", "CV", "Fast">>, r)
    ELSE choice(<<"Trickle", "None">>, r)

Temperature(r) == randint(22, 45, r)

\* the health forced to Warning only above 40
Health_above_40(temperature, r) ==
    IF temperature <= 40 THEN choice(health_states, r) ELSE "Warning"

Health(temperature, r) ==
    IF temperature < 40 THEN choice(health_states, r) ELSE "Warning"

\* one iteration of the loop: the dict appended for cell i, stamped `now`
MakeCell(i, seed, now) ==
    LET voltage     == Voltage(i, Raw(seed, i, 1))
        current     == Current(i, Raw(seed, i, 2))
        capacity    == Capacity(i, Raw(seed, i, 3))
        status      == Status(i, Raw(seed, i, 4))
        process     == Process(i, Raw(seed, i, 5))
        temperature == Temperature(Raw(seed, i, 6))
        health      == Health(temperature, Raw(seed, i, 7))
    IN  [ Cell_ID       |-> CellId(i),
          Voltage_V     |-> voltage,
          Current_A     |-> current,
          Temperature_C |-> temperature,
          Capacity_pct  |-> capacity,
          Status        |-> status,
          Process       |-> process,
          Health        |-> health,
          Power_W       |-> RoundProduct(voltage, current),
          Last_Update   |-> now ]

\* datetime.now() as read while cell i is built, when the clock stood at
\* `now` on entry and advances just before cell k is built (k = 0: it does
\* not advance during the loop)
NowAt(i, now, k) == IF k # 0 /\ i >= k THEN now + 1 ELSE now

generate_cell_data(seed, now, k) ==
    [ j \in 1..Len(cell_indices) |->
        MakeCell(cell_indices[j], seed, NowAt(cell_indices[j], now, k)) ]

\* the points at which the clock can advance during one call and the
\* time stamp that follows it: 0 (not at all), before cell k is built, or
\* between the end of the loop and the stamp of st.session_state.last_update
TickPoints == 0..(Len(cell_indices) + 1)

NoTick == {0}

----------------------------------------------------------------------------
(* The session *)

Processes == {"CC", "CV", "Trickle", "Fast", "None"}

Range(s) == {s[n] : n \in DOMAIN s}

\* df[col].unique(): the values in order of first appearance
Unique(s) ==
    LET first == {n \in DOMAIN s : \A m \in 1..(n - 1) : s[m] # s[n]}
    IN  [ k \in 1..Cardinality(first) |->
            s[CHOOSE n \in first : Cardinality({m \in first : m < n}) = k - 1] ]

Column(df, col) == [n \in DOMAIN df |-> df[n][col]]

RECURSIVE Sum(_)
Sum(s) == IF s = <<>> THEN 0 ELSE s[1] + Sum(Tail(s))

\* Series.mean(), kept as the fraction num/den; NaN over an empty series
Mean(s) ==
    IF Len(s) = 0 THEN [nan |-> TRUE, num |-> 0, den |-> 1]
    ELSE [nan |-> FALSE, num |-> Sum(s), den |-> Len(s)]

BlankPage ==
    [ rendered     |-> FALSE,
      active_cells |-> 0,
      total_power  |-> 0,
      avg_temp     |-> Mean(<<>>),
      avg_capacity |-> Mean(<<>>),
      selected     |-> {},
      filtered_df  |-> <<>>,
      cards        |-> {},
      alerts       |-> <<>>,
      all_normal   |-> FALSE,
      shown_update |-> 0 ]

NoWidget == [options |-> <<>>, value |-> {}]

Init ==
    /\ cell_data = <<>>
    /\ clock = 0
    /\ last_update = 0
    /\ auto_refresh = TRUE
    /\ widget = NoWidget
    /\ page = BlankPage
    /\ pc = "start"
    /\ trigger = "none"
    /\ gen_calls = 0

\* a script run starts: the page is rebuilt from nothing
StartRun(why) ==
    /\ trigger' = why
    /\ page' = BlankPage
    /\ gen_calls' = 0
    /\ pc' = "L147"

Waiting == pc \in {"sleep", "done"}

\* the first script run of the session
Load ==
    /\ pc = "start"
    /\ StartRun("load")
    /\ UNCHANGED <<cell_data, last_update, auto_refresh, widget, clock>>

\* the user presses "Refresh Data"
PressButton ==
    /\ Waiting
    /\ StartRun("button")
    /\ UNCHANGED <<cell_data, last_update, auto_refresh, widget, clock>>

\* the user flips the "Auto Refresh (5s)" checkbox
ToggleAutoRefresh ==
    /\ Waiting
    /\ auto_refresh' = ~auto_refresh
    /\ StartRun("checkbox")
    /\ UNCHANGED <<cell_data, last_update, widget, clock>>

\* the user changes the process multiselect to sel
ChangeFilter(sel) ==
    /\ Waiting
    /\ sel \subseteq Range(widget.options)
    /\ sel # widget.value
    /\ widget' = [widget EXCEPT !.value = sel]
    /\ StartRun("filter")
    /\ UNCHANGED <<cell_data, last_update, auto_refresh, clock>>

\* time.sleep(5) has elapsed and st.rerun() restarts the script
TimerRerun ==
    /\ pc = "sleep"
    /\ StartRun("timer")
    /\ UNCHANGED <<cell_data, last_update, auto_refresh, widget, clock>>

\* cell_data = generate_cell_data(); last_update = datetime.now()
Regenerate(seed, k) ==
    /\ k # 0 => clock < MaxClock
    /\ cell_data' = generate_cell_data(seed, clock, k)
    /\ clock' = IF k # 0 THEN clock + 1 ELSE clock
    /\ last_update' = clock'
    /\ gen_calls' = gen_calls + 1

\* if st.sidebar.button(...): regenerate
ButtonHandler(seeds, ticks) ==
    /\ pc = "L147"
    /\ IF trigger = "button"
       THEN \E seed \in seeds, k \in ticks : Regenerate(seed, k)
       ELSE UNCHANGED <<cell_data, last_update, gen_calls, clock>>
    /\ pc' = "L152"
    /\ UNCHANGED <<auto_refresh, widget, page, trigger>>

\* the refresh without the auto_refresh test
Refresh_initial_only(seeds, ticks) ==
    /\ pc = "L152"
    /\ IF Len(cell_data) = 0
       THEN \E seed \in seeds, k \in ticks : Regenerate(seed, k)
       ELSE UNCHANGED <<cell_data, last_update, gen_calls, clock>>
    /\ pc' = "L156"
    /\ UNCHANGED <<auto_refresh, widget, page, trigger>>

\* the refresh on every script run
Refresh_always(seeds, ticks) ==
    /\ pc = "L152"
    /\ \E seed \in seeds, k \in ticks : Regenerate(seed, k)
    /\ pc' = "L156"
    /\ UNCHANGED <<auto_refresh, widget, page, trigger>>

\* if len(cell_data) == 0 or auto_refresh: regenerate
Refresh(seeds, ticks) ==
    /\ pc = "L152"
    /\ IF Len(cell_data) = 0 \/ auto_refresh
       THEN \E seed \in seeds, k \in ticks : Regenerate(seed, k)
       ELSE UNCHANGED <<cell_data, last_update, gen_calls, clock>>
    /\ pc' = "L156"
    /\ UNCHANGED <<auto_refresh, widget, page, trigger>>

\* time passes between two steps
Tick ==
    /\ clock < MaxClock
    /\ clock' = clock + 1
    /\ UNCHANGED <<cell_data, last_update, auto_refresh, widget, page, pc,
                   trigger, gen_calls>>

----------------------------------------------------------------------------
(* The render pass *)

\* the metrics with every cell that is not idle counted as active
Metrics_not_idle(df) ==
    [ active_cells |-> Len(SelectSeq(df, LAMBDA c : c.Status # "Idle")),
      total_power  |-> Sum(Column(df, "Power_W")),
      avg_temp     |-> Mean(Column(df, "Temperature_C")),
      avg_capacity |-> Mean(Column(df, "Capacity_pct")) ]

\* active_cells, total_power, avg_temp, avg_capacity
Metrics(df) ==
    [ active_cells |-> Len(SelectSeq(df, LAMBDA c : c.Status = "Charging")),
      total_power  |-> Sum(Column(df, "Power_W")),
      avg_temp     |-> Mean(Column(df, "Temperature_C")),
      avg_capacity |-> Mean(Column(df, "Capacity_pct")) ]

\* st.sidebar.multiselect(options = default = df['Process'].unique()): the
\* widget keeps the user's value while it is built with the same options,
\* and is a new widget holding its default when the options differ
Multiselect(w, options) ==
    IF w.options = options THEN w
    ELSE [options |-> options, value |-> Range(options)]

\* an empty selection taken to mean no filter
FilterRows_empty_is_all(df, selected_processes) ==
    IF selected_processes = {} THEN df
    ELSE SelectSeq(df, LAMBDA c : c.Process \in selected_processes)

\* df[df['Process'].isin(selected_processes)]
FilterRows(df, selected_processes) ==
    SelectSeq(df, LAMBDA c : c.Process \in selected_processes)

\* the grid of cell cards: <<row offset i, column j, Cell_ID>>
Cards(filtered_df) ==
    { <<i, j, filtered_df[i + j + 1].Cell_ID>> :
        <<i, j>> \in { ij \in (0..Len(filtered_df)) \X (0..3) :
                          /\ ij[1] < Len(filtered_df)
                          /\ ij[1] % 4 = 0
                          /\ ij[1] + ij[2] < Len(filtered_df) } }

\* the over-temperature alert from 40 degrees on
high_temp_cells_from_40(filtered_df) ==
    SelectSeq(filtered_df, LAMBDA c : c.Temperature_C >= 40)

high_temp_cells(filtered_df) ==
    SelectSeq(filtered_df, LAMBDA c : c.Temperature_C > 40)

low_capacity_cells(filtered_df) ==
    SelectSeq(filtered_df, LAMBDA c : c.Capacity_pct < 20)

error_cells(filtered_df) ==
    SelectSeq(filtered_df, LAMBDA c : c.Status = "Error")

AlertMessage(kind, cells) ==
    IF Len(cells) > 0
    THEN << [kind |-> kind, count |-> Len(cells), cells |-> Column(cells, "Cell_ID")] >>
    ELSE << >>

\* the alert messages in the order they are written to the page
Alerts(filtered_df) ==
    AlertMessage("High Temperature Alert", high_temp_cells(filtered_df))
    \o AlertMessage("Low Capacity Alert", low_capacity_cells(filtered_df))
    \o AlertMessage("Error Alert", error_cells(filtered_df))

\* whether "All systems operating normally!" is written
AllNormal(filtered_df) ==
    /\ Len(high_temp_cells(filtered_df)) = 0
    /\ Len(low_capacity_cells(filtered_df)) = 0
    /\ Len(error_cells(filtered_df)) = 0

\* df = st.session_state.cell_data ... the footer; then, with auto refresh
\* on, time.sleep(5) before st.rerun()
Render ==
    /\ pc = "L156"
    /\ LET df          == cell_data
           m           == Metrics(df)
           w           == Multiselect(widget, Unique(Column(df, "Process")))
           filtered_df == FilterRows(df, w.value)
       IN  /\ widget' = w
           /\ page' = [ rendered     |-> TRUE,
                        active_cells |-> m.active_cells,
                        total_power  |-> m.total_power,
                        avg_temp     |-> m.avg_temp,
                        avg_capacity |-> m.avg_capacity,
                        selected     |-> w.value,
                        filtered_df  |-> filtered_df,
                        cards        |-> Cards(filtered_df),
                        alerts       |-> Alerts(filtered_df),
                        all_normal   |-> AllNormal(filtered_df),
                        shown_update |-> last_update ]
    /\ pc' = IF auto_refresh THEN "sleep" ELSE "done"
    /\ UNCHANGED <<cell_data, last_update, auto_refresh, trigger, gen_calls,
                   clock>>

----------------------------------------------------------------------------
(* Specifications *)

\* the selections the user makes in the multiselect
AllFilters == SUBSET Processes

FewFilters == {{}, {"CC"}}

Step(seeds, ticks, filters) ==
    \/ Load
    \/ PressButton
    \/ ToggleAutoRefresh
    \/ \E sel \in filters : ChangeFilter(sel)
    \/ TimerRerun
    \/ ButtonHandler(seeds, ticks)
    \/ Refresh(seeds, ticks)
    \/ Render

\* the session under every seed and every selection, within one instant of
\* the clock
Next == Step(Seeds, NoTick, AllFilters)

Spec == Init /\ [][Next]_vars

\* the session under a few seeds and selections, with a clock that advances
\* between the steps of a script run, inside generate_cell_data and before
\* the stamp that follows it
NextClock == Step(FewSeeds, TickPoints, FewFilters) \/ Tick

SpecClock == Init /\ [][NextClock]_vars

\* the session as scheduled: a script run that has started runs to its end,
\* and the sleep before st.rerun() ends
NextLive == Step(FewSeeds, NoTick, FewFilters)

LiveSpec ==
    /\ Init
    /\ [][NextLive]_vars
    /\ WF_vars(ButtonHandler(FewSeeds, NoTick))
    /\ WF_vars(Refresh(FewSeeds, NoTick))
    /\ WF_vars(Render)
    /\ WF_vars(TimerRerun)

----------------------------------------------------------------------------
(* The evaluator on fixture snapshots *)

\* a reading given by the fields the evaluator reads; the n-th of its snapshot
FixtureCell(n, temperature, capacity, status, process) ==
    [ Cell_ID       |-> CellId(n),
      Voltage_V     |-> 400,
      Current_A     |-> 10,
      Temperature_C |-> temperature,
      Capacity_pct  |-> capacity,
      Status        |-> status,
      Process       |-> process,
      Health        |-> "Good",
      Power_W       |-> 40,
      Last_Update   |-> 0 ]

FixtureCells(n) ==
    { FixtureCell(n, t, c, st, p) :
        t \in {40, 41}, c \in {15, 20}, st \in {"Charging", "Error"},
        p \in {"CC", "None"} }

Fixtures ==
    UNION { { df \in [1..len -> UNION {FixtureCells(n) : n \in 1..len}] :
                \A n \in 1..len : df[n] \in FixtureCells(n) } :
            len \in 0..MaxFixture }

\* a script run about to render a fixture snapshot under some selection
InitFixture ==
    /\ cell_data \in Fixtures
    /\ \E sel \in SUBSET Processes :
          /\ sel \subseteq Range(Column(cell_data, "Process"))
          /\ widget = [options |-> Unique(Column(cell_data, "Process")),
                       value |-> sel]
    /\ clock = 0
    /\ last_update = 0
    /\ auto_refresh = FALSE
    /\ page = BlankPage
    /\ pc = "L156"
    /\ trigger = "filter"
    /\ gen_calls = 0

NextFixture == Render

SpecFixture == InitFixture /\ [][NextFixture]_vars

----------------------------------------------------------------------------
(* Properties *)

Rows(df, P(_)) == {n \in DOMAIN df : P(df[n])}

RECURSIVE Total(_, _, _)
Total(df, col, n) == IF n = 0 THEN 0 ELSE df[n][col] + Total(df, col, n - 1)

ExpectedIds ==
    <<"Cell_01", "Cell_02", "Cell_03", "Cell_04",
      "Cell_05", "Cell_06", "Cell_07", "Cell_08">>

HasShape(df) ==
    /\ Len(df) = 8
    /\ \A n \in 1..8 : df[n].Cell_ID = ExpectedIds[n]
    /\ \A n, o \in 1..8 : n # o => df[n].Cell_ID # df[o].Cell_ID

\* C1: every stored snapshot, and the snapshot a script run evaluates, has
\* exactly 8 readings with the ids Cell_01 .. Cell_08 in that order, no id
\* twice, whatever the draws and whatever started the script run.
C1_SnapshotShape ==
    /\ cell_data # <<>> => HasShape(cell_data)
    /\ pc \in {"L156", "sleep", "done"} => HasShape(cell_data)

C1_Witness ==
    /\ page.rendered
    /\ trigger = "button"
    /\ gen_calls = 2
    /\ HasShape(cell_data)

\* C2: in every reading of every snapshot a temperature of 40 or more comes
\* with the health Warning, so that Excellent, Good and Critical occur only
\* below 40.
C2_HotIsWarning ==
    \A n \in DOMAIN cell_data :
        /\ cell_data[n].Temperature_C >= 40 => cell_data[n].Health = "Warning"
        /\ cell_data[n].Health \in {"Excellent", "Good", "Critical"}
              => cell_data[n].Temperature_C < 40
        /\ cell_data[n].Health \in {"Excellent", "Good", "Warning", "Critical"}

C2_Witness ==
    /\ \E n \in DOMAIN cell_data :
          cell_data[n].Temperature_C = 40 /\ cell_data[n].Health = "Warning"
    /\ \E n \in DOMAIN cell_data :
          cell_data[n].Temperature_C < 40 /\ cell_data[n].Health = "Critical"

\* the four aggregates of the rows of df
ActiveCount(df) == Cardinality(Rows(df, LAMBDA c : c.Status = "Charging"))

MeanIs(avg, df, col) ==
    IF Len(df) = 0 THEN avg.nan
    ELSE ~avg.nan /\ avg.num * Len(df) = Total(df, col, Len(df)) * avg.den

AggregatesOf(df) ==
    /\ page.active_cells = ActiveCount(df)
    /\ page.total_power = Total(df, "Power_W", Len(df))
    /\ MeanIs(page.avg_temp, df, "Temperature_C")
    /\ MeanIs(page.avg_capacity, df, "Capacity_pct")

\* the rows of df whose process is selected, in the order of df
IsFilterOf(f, df, selected) ==
    /\ Len(f) = Cardinality(Rows(df, LAMBDA c : c.Process \in selected))
    /\ \A n \in DOMAIN f : f[n] \in Range(df) /\ f[n].Process \in selected
    /\ \A n, o \in DOMAIN f : n < o => f[n].Cell_ID # f[o].Cell_ID
    /\ \A n \in DOMAIN df :
          df[n].Process \in selected => df[n] \in Range(f)

\* C3 as stated: on every rendered page each of the four aggregates is the
\* aggregate of the filtered readings.
C3_AggregatesOfFiltered ==
    page.rendered => AggregatesOf(page.filtered_df)

\* C3 as amended: on every rendered page the filtered list holds exactly the
\* readings of the stored snapshot whose process is selected, and each of
\* the four aggregates is the aggregate of all the readings of the stored
\* snapshot, whatever the selection.
C3_AggregatesOfSnapshot ==
    page.rendered =>
        /\ IsFilterOf(page.filtered_df, cell_data, page.selected)
        /\ page.selected \subseteq Range(Column(cell_data, "Process"))
        /\ AggregatesOf(cell_data)

C3_Witness ==
    /\ page.rendered
    /\ page.selected = {"CC"}
    /\ Len(page.filtered_df) = 2
    /\ Len(cell_data) = 8
    /\ page.active_cells > ActiveCount(page.filtered_df)
    /\ AggregatesOf(cell_data)

\* the messages of a kind on the page
MessagesOf(kind) == {n \in DOMAIN page.alerts : page.alerts[n].kind = kind}

AlertMatches(kind, P(_)) ==
    LET hit == Rows(page.filtered_df, P)
    IN  IF hit = {} THEN MessagesOf(kind) = {}
        ELSE /\ Cardinality(MessagesOf(kind)) = 1
             /\ \A n \in MessagesOf(kind) :
                   /\ page.alerts[n].count = Cardinality(hit)
                   /\ Range(page.alerts[n].cells)
                        = {page.filtered_df[h].Cell_ID : h \in hit}

TooHot(c) == c.Temperature_C > 40

TooLow(c) == c.Capacity_pct < 20

InError(c) == c.Status = "Error"

\* C4: on every rendered page the all-normal banner is shown exactly when no
\* filtered reading is above 40 degrees, none is below 20 percent and none is
\* in the Error status; each of the three conditions that some filtered
\* reading meets has exactly one alert message, which counts and lists all
\* the readings that meet it, and a condition no reading meets has none.
C4_BannerAndAlerts ==
    page.rendered =>
        /\ page.all_normal <=>
              /\ Rows(page.filtered_df, TooHot) = {}
              /\ Rows(page.filtered_df, TooLow) = {}
              /\ Rows(page.filtered_df, InError) = {}
        /\ AlertMatches("High Temperature Alert", TooHot)
        /\ AlertMatches("Low Capacity Alert", TooLow)
        /\ AlertMatches("Error Alert", InError)
        /\ page.all_normal <=> page.alerts = <<>>

C4_Witness ==
    /\ page.rendered
    /\ Len(page.alerts) = 3
    /\ ~page.all_normal
    /\ \E n \in DOMAIN page.filtered_df :
          /\ TooHot(page.filtered_df[n])
          /\ TooLow(page.filtered_df[n])
          /\ InError(page.filtered_df[n])
          /\ \A m \in DOMAIN page.alerts :
                page.filtered_df[n].Cell_ID \in Range(page.alerts[m].cells)
    /\ \E n \in DOMAIN page.filtered_df : page.filtered_df[n].Temperature_C = 40

\* C5 as stated: all the readings of the stored snapshot carry one
\* Last_Update value, the time stamp the session recorded for that snapshot.
C5_OneCaptureTime ==
    \A n \in DOMAIN cell_data : cell_data[n].Last_Update = last_update

\* C7: on every rendered page whose selection is empty the filtered list is
\* empty, no card is drawn, no alert is raised, and the script run has
\* reached its end.
C7_EmptySelection ==
    page.rendered /\ page.selected = {} =>
        /\ page.filtered_df = <<>>
        /\ page.cards = {}
        /\ page.alerts = <<>>
        /\ page.all_normal
        /\ pc \in {"sleep", "done"}

C7_Witness ==
    /\ page.rendered
    /\ page.selected = {}
    /\ HasShape(cell_data)
    /\ \E n \in DOMAIN cell_data : TooHot(cell_data[n])
    /\ page.cards = {}
    /\ pc = "done"

InProfile(c, active) ==
    IF active
    THEN /\ c.Voltage_V \in 390..420
         /\ c.Current_A \in 5..35
         /\ c.Capacity_pct \in 60..99
         /\ c.Status \in {"Charging", "Complete"}
         /\ c.Process \in {"CC", "CV", "Fast"}
    ELSE /\ c.Voltage_V \in 370..421
         /\ c.Current_A \in 0..10
         /\ c.Capacity_pct \in 85..100
         /\ c.Status \in {"Complete", "Idle"}
         /\ c.Process \in {"Trickle", "None"}

\* C8: in every snapshot the readings at positions 1 to 4 lie in the active
\* profile (3.9-4.2 V, 0.5-3.5 A, 60-99 %, Charging or Complete, CC, CV or
\* Fast), those at positions 5 to 8 in the maintenance profile (3.7-4.21 V,
\* 0.0-1.0 A, 85-100 %, Complete or Idle, Trickle or None), and every
\* temperature lies in 22..45.
C8_SamplingProfiles ==
    \A n \in DOMAIN cell_data :
        /\ InProfile(cell_data[n], n <= 4)
        /\ cell_data[n].Temperature_C \in 22..45

C8_Witness ==
    /\ HasShape(cell_data)
    /\ cell_data[4].Current_A > 10
    /\ cell_data[4].Capacity_pct < 85
    /\ cell_data[4].Status = "Charging"
    /\ cell_data[5].Voltage_V < 390
    /\ cell_data[5].Status = "Idle"
    /\ cell_data[5].Process = "None"

\* C9: no stored reading has a capacity below 20 or the Error status; on
\* every rendered page the low-capacity and error alerts are absent, the
\* all-normal banner is shown exactly when no filtered reading is above 40
\* degrees, and the active cell count is at most 4.
C9_OnlyTemperatureAlerts ==
    /\ \A n \in DOMAIN cell_data : ~TooLow(cell_data[n]) /\ ~InError(cell_data[n])
    /\ page.rendered =>
          /\ MessagesOf("Low Capacity Alert") = {}
          /\ MessagesOf("Error Alert") = {}
          /\ page.all_normal <=> Rows(page.filtered_df, TooHot) = {}
          /\ page.active_cells <= 4

C9_Witness ==
    /\ page.rendered
    /\ page.active_cells = 4
    /\ ~page.all_normal
    /\ Len(page.alerts) = 1
    /\ \E n \in DOMAIN page.filtered_df : page.filtered_df[n].Temperature_C = 40

\* C6: a script run that ends with auto refresh on waits in the sleep, and
\* from the sleep the session always comes to a script run that evaluates a
\* newly generated snapshot, unless auto refresh is switched off; a script
\* run started by the refresh button evaluates a newly generated snapshot;
\* and with auto refresh off the timer restarts nothing.
C6_TimedLoop ==
    /\ (pc = "sleep") ~> ((pc = "L156" /\ gen_calls >= 1) \/ ~auto_refresh)
    /\ [](Waiting => (pc = "sleep" <=> auto_refresh))
    /\ [](pc = "L156" /\ trigger = "button" => gen_calls >= 1)
    /\ [](pc = "L156" /\ auto_refresh => gen_calls >= 1)
    /\ [](~auto_refresh => ~ENABLED TimerRerun)

C6_Witness ==
    /\ pc = "L156"
    /\ trigger = "timer"
    /\ auto_refresh
    /\ gen_calls = 1
    /\ HasShape(cell_data)

\* a step of the script run that regenerates the snapshot
Regenerates ==
    /\ pc' # pc
    /\ \/ pc = "L147" /\ trigger = "button"
       \/ pc = "L152" /\ (Len(cell_data) = 0 \/ auto_refresh)

\* C10: a step changes the stored snapshot or the stored time stamp only as
\* the button handler of a run started by the button, or as the refresh of a
\* run that finds no snapshot (the first run) or auto refresh on; such a
\* step stores a whole new snapshot and stamps it with the time at its end;
\* and a run not started by the button, with auto refresh off and a snapshot
\* stored, changes neither.
C10_SnapshotFrame ==
    [][ /\ (cell_data' # cell_data \/ last_update' # last_update) => Regenerates
        /\ Regenerates =>
              /\ gen_calls' = gen_calls + 1
              /\ HasShape(cell_data')
              /\ last_update' = clock'
              /\ \A n \in DOMAIN cell_data' :
                    cell_data'[n].Last_Update \in clock..clock'
        /\ pc = "L152" /\ Len(cell_data) = 0 => trigger = "load"
        /\ ( /\ pc \in {"L147", "L152", "L156"}
             /\ trigger # "button"
             /\ ~auto_refresh
             /\ cell_data # <<>> )
              => cell_data' = cell_data /\ last_update' = last_update
      ]_vars

C10_Witness ==
    /\ pc = "done"
    /\ trigger = "filter"
    /\ page.rendered
    /\ page.selected = {}
    /\ gen_calls = 0
    /\ HasShape(cell_data)
    /\ last_update < clock
    /\ page.shown_update = last_update

====
